---- MODULE Spec2Model ----
(***************************************************************************)
(* Model of src/app.py: the order-book normaliser format_orderbook_df and  *)
(* the HTTP helper get_json.                                               *)
(*                                                                         *)
(* Floats are modelled as extended integers: a finite integer, NaN, +inf   *)
(* or -inf, with IEEE-754 rules for *, + and <; rounding is not modelled.  *)
(* A raw level is a sequence of string fields as the exchanges deliver     *)
(* them.  The spec's side bid is the code's "bids", its ask "asks"; its    *)
(* columns quantity, cumulative_quantity and cumulative_notional are the   *)
(* code's qty, cum_qty and cum_notional.                                   *)
(***************************************************************************)
EXTENDS Integers, Sequences, FiniteSets

VARIABLES levels, side, tieOrder, df, ncalls, url, resp, j, notice

vars == <<levels, side, tieOrder, df, ncalls, url, resp, j, notice>>

(***************************************************************************)
(* Bounds of the model.                                                    *)
(***************************************************************************)
MaxLevels == 3
MaxCalls == 2

(***************************************************************************)
(* Float values.                                                           *)
(***************************************************************************)
Fin(n) == [k |-> "fin", v |-> n]
NaN == [k |-> "nan", v |-> 0]
PosInf == [k |-> "inf", v |-> 1]
NegInf == [k |-> "inf", v |-> -1]

IsNaN(a) == a.k = "nan"
IsFinite(a) == a.k = "fin"

Sign(a) == IF a.v > 0 THEN 1 ELSE IF a.v < 0 THEN -1 ELSE 0

\* IEEE a < b: false when either side is NaN.
Less(a, b) ==
    IF IsNaN(a) \/ IsNaN(b) THEN FALSE
    ELSE IF a.k = "inf" THEN a.v = -1 /\ b # a
    ELSE IF b.k = "inf" THEN b.v = 1
    ELSE a.v < b.v

\* IEEE a <= b and a >= b: false when either side is NaN.
LessEq(a, b) == ~IsNaN(a) /\ ~IsNaN(b) /\ ~Less(b, a)

\* IEEE a * b (line 110, p*q).
Mul(a, b) ==
    IF IsNaN(a) \/ IsNaN(b) THEN NaN
    ELSE IF a.k = "fin" /\ b.k = "fin" THEN Fin(a.v * b.v)
    ELSE IF Sign(a) * Sign(b) = 0 THEN NaN
    ELSE IF Sign(a) * Sign(b) > 0 THEN PosInf ELSE NegInf

\* IEEE a + b (the additions of cumsum).
Add(a, b) ==
    IF IsNaN(a) \/ IsNaN(b) THEN NaN
    ELSE IF a.k = "fin" /\ b.k = "fin" THEN Fin(a.v + b.v)
    ELSE IF a.k = "inf" /\ b.k = "inf" THEN (IF a.v = b.v THEN a ELSE NaN)
    ELSE IF a.k = "inf" THEN a ELSE b

(***************************************************************************)
(* float(x) of a raw field: the value, or an exception (ValueError).       *)
(***************************************************************************)
Parsed(x) == [ok |-> TRUE, val |-> x]
Raises == [ok |-> FALSE, val |-> NaN]

Float(tok) ==
    CASE tok = "0" -> Parsed(Fin(0))
      [] tok = "1" -> Parsed(Fin(1))
      [] tok = "2" -> Parsed(Fin(2))
      [] tok = "7" -> Parsed(Fin(7))
      [] tok = "90" -> Parsed(Fin(90))
      [] tok = "100" -> Parsed(Fin(100))
      [] tok = "110" -> Parsed(Fin(110))
      [] tok = "-1" -> Parsed(Fin(-1))
      [] tok = "nan" -> Parsed(NaN)
      [] tok = "inf" -> Parsed(PosInf)
      [] tok = "-inf" -> Parsed(NegInf)
      [] OTHER -> Raises

(***************************************************************************)
(* The inputs: raw levels as [price, size, ...] rows of strings.           *)
(***************************************************************************)
RawLevels ==
    { <<"100", "2">>, <<"90", "1">>, <<"110", "1", "7">>, <<"100", "0">>,
      <<"bad", "1">>, <<"100", "bad">>, <<"90">>,
      <<"nan", "1">>, <<"90", "nan">>, <<"90", "-1">>, <<"-1", "2">>,
      <<"inf", "0">> }

SeqsUpTo(S, n) == UNION { [1..m -> S] : m \in 0..n }

\* The levels argument: a list of rows, or a value that is no list or tuple.
LevelsArgs ==
    { [kind |-> "list", items |-> s] : s \in SeqsUpTo(RawLevels, MaxLevels) }
    \cup { [kind |-> "tuple", items |-> s] : s \in SeqsUpTo(RawLevels, 1) }
    \cup { [kind |-> "dict", items |-> s] : s \in SeqsUpTo(RawLevels, 1) }
    \cup { [kind |-> "NoneType", items |-> <<>>] }

Sides == {"bids", "asks", "buy"}

(***************************************************************************)
(* format_orderbook_df, lines 101-119.                                     *)
(***************************************************************************)
Columns == <<"price", "qty", "notional", "cum_qty", "cum_notional">>

\* pd.DataFrame(columns=[...]): lines 105 and 114.
EmptyFrame == [raised |-> FALSE, columns |-> Columns, rows |-> <<>>]

\* sort_values("price") on a frame that has no such column.
KeyError == [raised |-> TRUE, columns |-> <<>>, rows |-> <<>>]

\* No call has returned yet.
NoFrame == [raised |-> FALSE, columns |-> <<>>, rows |-> <<>>]

\* Line 104: isinstance(levels, (list, tuple)).
IsListOrTuple(l) == l.kind \in {"list", "tuple"}

\* Lines 108-110: the body of the try; row[1] raises IndexError on a short row.
TryRow(row) ==
    IF Len(row) < 2 THEN [ok |-> FALSE, row |-> <<>>]
    ELSE LET p == Float(row[1])
             q == Float(row[2])
         IN IF p.ok /\ q.ok
            THEN [ok |-> TRUE,
                  row |-> <<[price |-> p.val, qty |-> q.val,
                             notional |-> Mul(p.val, q.val)]>>]
            ELSE [ok |-> FALSE, row |-> <<>>]

RECURSIVE Loop(_, _)

OnException_break(rest, rows) == rows

\* Lines 111-112: except Exception: continue.
OnException(rest, rows) == Loop(rest, rows)

\* Lines 107-112: for row in levels.
Loop(items, rows) ==
    IF items = <<>> THEN rows
    ELSE LET r == TryRow(Head(items))
         IN IF r.ok THEN Loop(Tail(items), rows \o r.row)
            ELSE OnException(Tail(items), rows)

StripFrame(f) ==
    [i \in 1..Len(f.rows) |->
        [price |-> f.rows[i].price, qty |-> f.rows[i].qty,
         notional |-> f.rows[i].notional]]

InitialRows_stale == StripFrame(df)

\* Line 106: rows=[].
InitialRows == <<>>

NoRows_never(rows) == FALSE

\* Line 113: if not rows.
NoRows(rows) == rows = <<>>

Ascending_asksOnly(s) == s = "asks"

\* Line 116: ascending=(side!="bids").
Ascending(s) == s # "bids"

Reverse(s) == [i \in 1..Len(s) |-> s[Len(s) + 1 - i]]

\* Insert position i into the sorted sequence of positions, by price.
RECURSIVE InsertIdx(_, _, _, _)
InsertIdx(sorted, i, price, keepTies) ==
    IF sorted = <<>> THEN <<i>>
    ELSE IF (IF keepTies THEN Less(price[i], price[Head(sorted)])
                         ELSE ~Less(price[Head(sorted)], price[i]))
         THEN <<i>> \o sorted
         ELSE <<Head(sorted)>> \o InsertIdx(Tail(sorted), i, price, keepTies)

Argsort_identity(idx, price, keepTies) == idx

\* ndarray.argsort(kind="quicksort") over the positions idx: ascending by
\* price; the order of equal prices is the build's.
RECURSIVE Argsort(_, _, _)
Argsort(idx, price, keepTies) ==
    IF idx = <<>> THEN <<>>
    ELSE InsertIdx(Argsort(SubSeq(idx, 1, Len(idx) - 1), price, keepTies),
                   idx[Len(idx)], price, keepTies)

\* pandas nargsort (behind sort_values, line 116): NaN keys go last.
Nargsort(price, ascending, keepTies) ==
    LET idx == [i \in 1..Len(price) |-> i]
        nonNan == SelectSeq(idx, LAMBDA i : ~IsNaN(price[i]))
        nanIdx == SelectSeq(idx, LAMBDA i : IsNaN(price[i]))
        sorted == IF ascending THEN Argsort(nonNan, price, keepTies)
                  ELSE Reverse(Argsort(Reverse(nonNan), price, keepTies))
    IN sorted \o nanIdx

\* Series.cumsum (lines 117-118): NaN entries count as 0 in the running sum
\* and are NaN in the result (skipna).
RECURSIVE Cumsum(_)
Cumsum(s) ==
    IF s = <<>> THEN <<>>
    ELSE LET init == Cumsum(SubSeq(s, 1, Len(s) - 1))
             last == s[Len(s)]
             RECURSIVE Running(_)
             Running(n) == IF n = 0 THEN Fin(0)
                           ELSE Add(Running(n - 1),
                                    IF IsNaN(s[n]) THEN Fin(0) ELSE s[n])
         IN Append(init, IF IsNaN(last) THEN NaN ELSE Running(Len(s)))

\* Lines 115-119 on the surviving rows.
SortedFrame(rows, s, keepTies) ==
    IF rows = <<>> THEN KeyError
    ELSE LET price == [i \in 1..Len(rows) |-> rows[i].price]
             ix == Nargsort(price, Ascending(s), keepTies)
             cq == Cumsum([i \in 1..Len(ix) |-> rows[ix[i]].qty])
             cn == Cumsum([i \in 1..Len(ix) |-> rows[ix[i]].notional])
         IN [raised |-> FALSE, columns |-> Columns,
             rows |-> [i \in 1..Len(ix) |->
                         [index |-> ix[i] - 1,
                          price |-> rows[ix[i]].price,
                          qty |-> rows[ix[i]].qty,
                          notional |-> rows[ix[i]].notional,
                          cum_qty |-> cq[i],
                          cum_notional |-> cn[i]]]]

FormatOrderbookDf(l, s, keepTies) ==
    IF ~IsListOrTuple(l) \/ Len(l.items) = 0 THEN EmptyFrame
    ELSE LET rows == Loop(l.items, InitialRows)
         IN IF NoRows(rows) THEN EmptyFrame
            ELSE SortedFrame(rows, s, keepTies)

\* Line 116 passes no kind, so sort_values sorts with kind="quicksort", which
\* numpy documents as not stable: where equal prices land relative to each
\* other is a property of the build (its numpy version and CPU dispatch),
\* the same on every call.  tieOrder is that property: "input" keeps equal
\* prices in input order, "reversed" hands them back reversed.
KeepTies == tieOrder = "input"

(***************************************************************************)
(* get_json, lines 11-22.  A response is what the network delivers for one *)
(* request: a connection failure, or a status line and a body after some   *)
(* latency.                                                                *)
(***************************************************************************)
DefaultTimeout == 15

Endpoints ==
    { "https://api.exchange.coinbase.com/products/BTC-USD/book",
      "https://api.kraken.com/0/public/Depth",
      "https://mempool.space/api/blocks/tip/height",
      "https://blockchain.info/latestblock" }

Bodies == { "{\"bids\": [], \"asks\": []}", "[]", "850000", "null", "<html>", "" }

Responses ==
    { [net |-> "ConnectionError", status |-> 0, body |-> "", latency |-> 1] }
    \cup [net : {"ok"}, status : {200, 304, 404, 500}, body : Bodies,
          latency : {1, 20}]

NoResponse == [net |-> "none", status |-> 0, body |-> "", latency |-> 0]

\* Python values get_json can return.
None == [type |-> "NoneType", repr |-> "None"]
Str(text) == [type |-> "str", repr |-> text]
Unset == [type |-> "unset", repr |-> ""]

\* r.json(): the parsed value, or an exception on a body that is not JSON.
JsonParse(body) ==
    CASE body = "{\"bids\": [], \"asks\": []}" ->
            [ok |-> TRUE, val |-> [type |-> "dict", repr |-> body]]
      [] body = "[]" -> [ok |-> TRUE, val |-> [type |-> "list", repr |-> body]]
      [] body = "850000" -> [ok |-> TRUE, val |-> [type |-> "int", repr |-> body]]
      [] body = "null" -> [ok |-> TRUE, val |-> None]
      [] OTHER -> [ok |-> FALSE, val |-> None]

\* Line 13: requests.get raises on a connection failure or after the timeout.
RequestsGet(r, timeout) ==
    IF r.net # "ok" THEN r.net
    ELSE IF r.latency > timeout THEN "Timeout"
    ELSE ""

\* Line 14: raise_for_status raises HTTPError on a 4xx or 5xx status.
RaiseForStatus(r) == IF r.status >= 400 /\ r.status < 600 THEN "HTTPError" ELSE ""

JsonFallback_none(r) == None

\* Lines 18-19: except Exception: return r.text.
JsonFallback(r) == Str(r.body)

\* Lines 20-22: st.error(...); return None.
HandleException(e) == [ret |-> None, notice |-> "Request failed: " \o e]

GetJson(r, timeout) ==
    IF RequestsGet(r, timeout) # "" THEN HandleException(RequestsGet(r, timeout))
    ELSE IF RaiseForStatus(r) # "" THEN HandleException(RaiseForStatus(r))
    ELSE IF JsonParse(r.body).ok THEN [ret |-> JsonParse(r.body).val, notice |-> ""]
    ELSE [ret |-> JsonFallback(r), notice |-> ""]

(***************************************************************************)
(* The state machine of the normaliser: a caller holds a snapshot and a    *)
(* side and calls format_orderbook_df on them, possibly several times.     *)
(***************************************************************************)
FetchIdle ==
    /\ resp = NoResponse
    /\ j = Unset
    /\ notice = ""

Init ==
    /\ levels \in LevelsArgs
    /\ side \in Sides
    /\ tieOrder \in {"input", "reversed"}
    /\ df = NoFrame
    /\ ncalls = 0
    /\ url = "https://api.exchange.coinbase.com/products/BTC-USD/book"
    /\ FetchIdle

Call ==
    /\ ncalls < MaxCalls
    /\ df' = FormatOrderbookDf(levels, side, KeepTies)
    /\ ncalls' = ncalls + 1
    /\ UNCHANGED <<levels, side, tieOrder, url, resp, j, notice>>

Next == Call

Spec == Init /\ [][Next]_vars

(***************************************************************************)
(* The state machine of the fetcher: get_json is called on an endpoint and *)
(* the network answers with any response.                                  *)
(***************************************************************************)
InitFetch ==
    /\ levels = [kind |-> "NoneType", items |-> <<>>]
    /\ side = "bids"
    /\ tieOrder = "input"
    /\ df = NoFrame
    /\ ncalls = 0
    /\ url \in Endpoints
    /\ FetchIdle

GetJsonCall ==
    \E r \in Responses :
        /\ resp' = r
        /\ j' = GetJson(r, DefaultTimeout).ret
        /\ notice' = GetJson(r, DefaultTimeout).notice
        /\ UNCHANGED <<levels, side, tieOrder, df, ncalls, url>>

NextFetch == GetJsonCall

SpecFetch == InitFetch /\ [][NextFetch]_vars

(***************************************************************************)
(* Vocabulary of the properties.                                           *)
(***************************************************************************)
Called == ncalls >= 1

Out == df.rows

\* A raw level the conversion accepts: two fields, both numeric to float().
WellFormed(row) == Len(row) >= 2 /\ Float(row[1]).ok /\ Float(row[2]).ok

\* The levels argument with its malformed rows removed.
Clean(l) == [kind |-> l.kind, items |-> SelectSeq(l.items, WellFormed)]

\* The surviving raw levels as (price, qty), in input order; a levels
\* argument that is no list or tuple has none.
Surviving ==
    LET kept == IF IsListOrTuple(levels)
                THEN SelectSeq(levels.items, WellFormed) ELSE <<>>
    IN [i \in 1..Len(kept) |->
          [price |-> Float(kept[i][1]).val, qty |-> Float(kept[i][2]).val]]

\* IEEE sum of s[1..n], left to right.
RECURSIVE SumTo(_, _)
SumTo(s, n) == IF n = 0 THEN Fin(0) ELSE Add(SumTo(s, n - 1), s[n])

Zero == Fin(0)

\* C1: the output prices are descending for side = bid and ascending for
\* side = ask, for every pair of adjacent output rows.
C1_SortedBySide ==
    (Called /\ side \in {"bids", "asks"}) =>
        \A n \in 1..(Len(Out) - 1) :
            IF side = "bids" THEN LessEq(Out[n + 1].price, Out[n].price)
            ELSE LessEq(Out[n].price, Out[n + 1].price)

\* C2: cum_qty is non-decreasing down the table and strictly greater than
\* the previous row's value at every row whose qty is nonzero; likewise
\* cum_notional with respect to notional.
C2_CumulativeMonotone ==
    Called =>
        \A n \in 2..Len(Out) :
            /\ LessEq(Out[n - 1].cum_qty, Out[n].cum_qty)
            /\ (Out[n].qty # Zero => Less(Out[n - 1].cum_qty, Out[n].cum_qty))
            /\ LessEq(Out[n - 1].cum_notional, Out[n].cum_notional)
            /\ (Out[n].notional # Zero =>
                    Less(Out[n - 1].cum_notional, Out[n].cum_notional))

\* C3: malformed raw levels (a non-numeric price or quantity, fewer than two
\* fields) are dropped without aborting: the table equals, row for row and in
\* every column, the table of the same list with those rows removed.
C3_MalformedDropped ==
    Called =>
        /\ ~df.raised
        /\ df = FormatOrderbookDf(Clean(levels), side, KeepTies)

C3_Witness ==
    /\ Called
    /\ \E a, b \in 1..Len(levels.items) :
          a < b /\ ~WellFormed(levels.items[a]) /\ WellFormed(levels.items[b])
    /\ Len(Out) >= 1

\* C4: every row of the returned table has a finite price >= 0 and a finite
\* quantity >= 0 (NaN, infinite and negative values are discarded).
C4_FiniteNonNegative ==
    Called =>
        \A n \in 1..Len(Out) :
            /\ IsFinite(Out[n].price) /\ Out[n].price.v >= 0
            /\ IsFinite(Out[n].qty) /\ Out[n].qty.v >= 0

\* C5: when levels is empty, null, not list-shaped, or a list in which no
\* row survives coercion, the call raises nothing and returns a table with
\* zero rows and exactly the five columns.
C5_EmptySchema ==
    (Called /\ (\/ ~IsListOrTuple(levels)
                \/ levels.items = <<>>
                \/ \A i \in 1..Len(levels.items) : ~WellFormed(levels.items[i])))
        => /\ ~df.raised
           /\ df.rows = <<>>
           /\ df.columns = <<"price", "qty", "notional", "cum_qty", "cum_notional">>

C5_Witness ==
    /\ Called
    /\ IsListOrTuple(levels)
    /\ Len(levels.items) >= 2
    /\ \A i \in 1..Len(levels.items) : ~WellFormed(levels.items[i])
    /\ df.rows = <<>>
    /\ Len(df.columns) = 5

\* C6: in every output row notional = price * qty, cum_qty is the sum of qty
\* over output rows 1..k and cum_notional the sum of notional over output
\* rows 1..k, in the returned order.
C6_RunningTotals ==
    Called =>
        LET qty == [n \in 1..Len(Out) |-> Out[n].qty]
            notional == [n \in 1..Len(Out) |-> Out[n].notional]
        IN \A n \in 1..Len(Out) :
              /\ Out[n].notional = Mul(Out[n].price, Out[n].qty)
              /\ Out[n].cum_qty = SumTo(qty, n)
              /\ Out[n].cum_notional = SumTo(notional, n)

\* C7: with a side outside {bid, ask} the table is exactly the table for
\* side = ask, and its comparable prices ascend.
C7_OtherSideAsAsk ==
    (Called /\ side \notin {"bids", "asks"}) =>
        /\ df = FormatOrderbookDf(levels, "asks", KeepTies)
        /\ \A n \in 1..(Len(Out) - 1) :
              (~IsNaN(Out[n].price) /\ ~IsNaN(Out[n + 1].price))
                  => LessEq(Out[n].price, Out[n + 1].price)

C7_Witness ==
    /\ Called
    /\ side = "buy"
    /\ Len(Out) >= 2
    /\ Less(Out[1].price, Out[2].price)
    /\ Out[1].index > Out[2].index

C10_StableTies ==
    Called =>
        \A a, b \in 1..Len(Out) :
            (a < b /\ Out[a].price = Out[b].price) => Out[a].index < Out[b].index

\* C10 amended: the output holds each surviving level exactly once, and
\* levels of equal price occupy adjacent rows (in no guaranteed order).
C10_TiesAdjacent ==
    Called =>
        /\ Len(Out) = Len(Surviving)
        /\ \A a \in 1..Len(Out) :
              /\ Out[a].index \in 0..(Len(Out) - 1)
              /\ Out[a].price = Surviving[Out[a].index + 1].price
              /\ Out[a].qty = Surviving[Out[a].index + 1].qty
        /\ \A a, b \in 1..Len(Out) : (a # b) => Out[a].index # Out[b].index
        /\ \A a, b, c \in 1..Len(Out) :
              (a < c /\ c < b /\ Out[a].price = Out[b].price)
                  => Out[c].price = Out[a].price

C10_Witness ==
    /\ Called
    /\ Len(Out) >= 3
    /\ \E a, b \in 1..Len(Out) :
          a < b /\ Out[a].price = Out[b].price /\ Out[a].index > Out[b].index

(***************************************************************************)
(* Properties of get_json, under SpecFetch.                                *)
(***************************************************************************)
Fetched == resp # NoResponse

\* The request failed: connection error, timeout, or an error status.
RequestFailed ==
    \/ resp.net # "ok"
    \/ resp.latency > DefaultTimeout
    \/ (resp.status >= 400 /\ resp.status < 600)

IsJsonValue(x) == x.type \in {"dict", "list", "int"}

\* C8 as stated: on a network error, a timeout, a non-2xx status or an
\* unparsable body get_json returns None, and it returns a parsed JSON value
\* only when the request succeeded and the body parsed.
C8_FailureIsNone ==
    Fetched =>
        /\ ((\/ resp.net # "ok"
             \/ resp.latency > DefaultTimeout
             \/ resp.status < 200 \/ resp.status >= 300
             \/ ~JsonParse(resp.body).ok) => j = None)
        /\ (IsJsonValue(j) =>
                /\ resp.net = "ok" /\ resp.latency <= DefaultTimeout
                /\ resp.status >= 200 /\ resp.status < 300
                /\ JsonParse(resp.body).ok)

\* C8 amended: get_json returns None, after an inline notice, on a network
\* error, a timeout or a 4xx/5xx status; otherwise it returns the parsed
\* body, or the raw body text when the body is not JSON.
C8_FetchOutcome ==
    Fetched =>
        /\ j \in {None} \cup {Str(b) : b \in Bodies}
                 \cup {JsonParse(b).val : b \in Bodies}
        /\ (RequestFailed => (j = None /\ notice # ""))
        /\ (~RequestFailed /\ ~JsonParse(resp.body).ok)
              => (j = Str(resp.body) /\ notice = "")
        /\ (~RequestFailed /\ JsonParse(resp.body).ok)
              => (j = JsonParse(resp.body).val /\ notice = "")
        /\ (IsJsonValue(j) => (~RequestFailed /\ JsonParse(resp.body).ok))

C8_Witness ==
    /\ Fetched
    /\ resp.net = "ok"
    /\ resp.status = 200
    /\ resp.latency <= DefaultTimeout
    /\ resp.body = "<html>"
    /\ j = Str("<html>")

====
